---- MODULE Spec2Model ----
(***************************************************************************)
(* Model of teuthology/task/rbd.py: the rbd tasks (create_image, modprobe, *)
(* dev_create, mkfs, mount, run_xfstests) as enter/exit pairs, sequenced   *)
(* by contextutil.nested in the two workflows task() and xfstests().       *)
(*                                                                         *)
(* Strings with dots and slashes are modelled as sequences of their        *)
(* components: the role 'client.0' is <<"client", "0">>, the image         *)
(* 'testimage.client.0' is <<"testimage", "client", "0">>.                 *)
(***************************************************************************)
EXTENDS Integers, Sequences, FiniteSets, TLC

\* Number of client roles of the cluster (client.0 .. client.<NumClients-1>).
NumClients == 2

\* ------------------------------------------------------------------ values

\* Python's None where an image name is expected.
None == <<>>

\* A property map that is None (as opposed to an empty map).
PNone == [none |-> TRUE, d |-> [k \in {} |-> 0]]

Props(f) == [none |-> FALSE, d |-> f]

\* get with the overrides of a map honoured only when the map names an image.
get_unless_unnamed(properties, key, default) ==
    IF properties.none \/ "image_name" \notin DOMAIN properties.d
                       \/ key \notin DOMAIN properties.d
    THEN default
    ELSE properties.d[key]

\* dict.get(key, default) on a property map; a None map is first replaced
\* by {} (rbd.py:46-47, 268-269, 513-514, 603-604).
get(properties, key, default) ==
    IF properties.none \/ key \notin DOMAIN properties.d
    THEN default
    ELSE properties.d[key]

ClientRole(i) == <<"client", ToString(i)>>

Clients == {ClientRole(i) : i \in 0 .. NumClients - 1}

OsdRole == <<"osd", "0">>

startswith_client(role) == Len(role) >= 1 /\ role[1] = "client"

Last(s) == s[Len(s)]

Front(s) == SubSeq(s, 1, Len(s) - 1)

\* All duplicate-free non-empty sequences over S.
Orders(S) ==
    {s \in UNION {[1 .. n -> S] : n \in 1 .. Cardinality(S)} :
        \A i, j \in DOMAIN s : i # j => s[i] # s[j]}

\* ----------------------------------------------------------- configuration
\* A configuration value is [type, items]: type "list" with items a sequence
\* of roles, type "dict" with items a sequence of [role, val] pairs in the
\* dict's iteration order, type "none" for None and type "other" for a value
\* that is neither a list nor a dict.

ConfigNone == [type |-> "none", items |-> <<>>]

ConfigOther == [type |-> "other", items |-> <<>>]

ListConfig(roles) == [type |-> "list", items |-> roles]

DictConfig(pairs) == [type |-> "dict", items |-> pairs]

AllRole == <<"all">>

\* Property maps a task configuration gives a target of client id n: the even
\* ids leave the image name out, the odd ids name an image.
TaskProps(kind, role) ==
    CASE kind = "null" -> PNone
      [] kind = "named" -> Props([k \in {"image_name"} |-> <<"foo">> \o Tail(role)])
      [] OTHER ->
            IF Last(role) \in {"0", "2", "4", "all"}
            THEN Props(("image_size" :> 20480) @@ ("fs_type" :> "xfs"))
            ELSE Props(("image_name" :> <<"foo">> \o Tail(role)) @@ ("image_format" :> 2))

PropKinds == {"null", "named", "mixed"}

\* Property maps an xfstests configuration gives a target.
XfsProps(kind, role) ==
    IF kind = "null"
    THEN PNone
    ELSE Props(("test_image" :> <<"timg">> \o Tail(role)) @@ ("test_size" :> 250))

\* ctx.cluster.remotes: host -> roles on it. Client i lives on host
\* i \div share; the osd has a host of its own.
Cluster(share) ==
    [h \in 0 .. NumClients |->
        IF h = NumClients
        THEN {OsdRole}
        ELSE {ClientRole(n) : n \in {m \in 0 .. NumClients - 1 : m \div share = h}}]

\* misc.all_roles_of_type(cluster, 'client') as full role names, ascending.
all_clients(cluster) ==
    LET present == {n \in 0 .. NumClients - 1 :
                        \E h \in DOMAIN cluster : ClientRole(n) \in cluster[h]}
    IN [n \in 1 .. Cardinality(present) |->
            ClientRole(CHOOSE m \in present :
                            Cardinality({k \in present : k < m}) = n - 1)]

HasAll(config) == \E n \in DOMAIN config.items : config.items[n].role = AllRole

AllValue(config) ==
    config.items[CHOOSE n \in DOMAIN config.items : config.items[n].role = AllRole].val

\* misc.replace_all_with_clients: a dict with the key 'all' becomes a dict with
\* one entry per client role of the cluster, each holding the value of 'all'.
replace_all_with_clients(cluster, config) ==
    IF ~HasAll(config)
    THEN config
    ELSE LET cl == all_clients(cluster)
         IN DictConfig([n \in DOMAIN cl |-> [role |-> cl[n], val |-> AllValue(config)]])

\* rbd.py:12-13
default_image_name(role) == <<"testimage">> \o role

\* '/dev/rbd/rbd/{image}'
dev_path(image) == <<"dev", "rbd", "rbd">> \o image

\* rbd.py:305-309
strip_client_prefix(role) == Tail(role)

\* rbd.py:311 '/tmp/cephtest/mnt.{id}'
mnt_template(id) == <<"tmp", "cephtest", "mnt">> \o id

\* The (role, properties) pairs a step iterates over: config.items() of a
\* dict, [(role, None) for role in config] of a list (rbd.py:40-43, 262-265).
images_of(config) ==
    IF config.type = "dict"
    THEN config.items
    ELSE [n \in DOMAIN config.items |-> [role |-> config.items[n], val |-> PNone]]

\* The (role, image) pairs dev_create and mount iterate over (rbd.py:152-155,
\* 300-303).
role_images_of(config) ==
    IF config.type = "dict"
    THEN config.items
    ELSE [n \in DOMAIN config.items |-> [role |-> config.items[n], val |-> None]]

\* for role in config (rbd.py:105, 118): the keys of a dict, the items of a list.
roles_of(config) ==
    IF config.type = "dict"
    THEN [n \in DOMAIN config.items |-> config.items[n].role]
    ELSE config.items

\* task_norm_config with every value that is no dict and no list taken as None.
task_norm_config_other_as_none(cluster, config) ==
    LET c == IF config.type \in {"none", "other"}
             THEN DictConfig(<<[role |-> AllRole, val |-> PNone]>>)
             ELSE config
    IN IF c.type = "dict" THEN replace_all_with_clients(cluster, c) ELSE c

\* task_norm_config without the expansion of 'all'.
task_norm_config_unexpanded(cluster, config) ==
    IF config.type = "none"
    THEN DictConfig(<<[role |-> AllRole, val |-> PNone]>>)
    ELSE config

\* task_norm_config with the entries of the result in the reverse of the
\* order it was given them in.
task_norm_config_reversed(cluster, config) ==
    LET c == IF config.type = "none"
             THEN DictConfig(<<[role |-> AllRole, val |-> PNone]>>)
             ELSE config
        n == IF c.type = "dict" THEN replace_all_with_clients(cluster, c) ELSE c
    IN [n EXCEPT !.items = [k \in DOMAIN n.items |-> n.items[Len(n.items) + 1 - k]]]

\* rbd.py:595-599
task_norm_config(cluster, config) ==
    LET c == IF config.type = "none"
             THEN DictConfig(<<[role |-> AllRole, val |-> PNone]>>)
             ELSE config
    IN IF c.type = "dict" THEN replace_all_with_clients(cluster, c) ELSE c

\* task_role_images with a fixed name where the properties name no image.
task_role_images_fixed_default(norm_config) ==
    IF norm_config.type = "dict"
    THEN DictConfig([n \in DOMAIN norm_config.items |->
            [role |-> norm_config.items[n].role,
             val |-> get(norm_config.items[n].val, "image_name", <<"testimage">>)]])
    ELSE norm_config

\* rbd.py:600-607
task_role_images(norm_config) ==
    IF norm_config.type = "dict"
    THEN DictConfig([n \in DOMAIN norm_config.items |->
            [role |-> norm_config.items[n].role,
             val |-> get(norm_config.items[n].val, "image_name", None)]])
    ELSE norm_config

Step(kind, config) == [kind |-> kind, config |-> config]

\* task_steps with the module loaded after the devices are mapped.
task_steps_swapped(norm_config, role_images) ==
    << Step("create_image", norm_config),
       Step("dev_create", role_images),
       Step("modprobe", norm_config),
       Step("mkfs", norm_config),
       Step("mount", role_images) >>

\* rbd.py:611-617: the managers task() hands to contextutil.nested, in order.
task_steps(norm_config, role_images) ==
    << Step("create_image", norm_config),
       Step("modprobe", norm_config),
       Step("dev_create", role_images),
       Step("mkfs", norm_config),
       Step("mount", role_images) >>

\* rbd.py:516-536: the image and workload configurations of one xfstests run.
xfstests_test_image(properties) == get(properties, "test_image", <<"test_image">>)

xfstests_scratch_image(properties) ==
    get(properties, "scratch_image", <<"scratch_image">>)

\* rbd.py:543-552: the managers xfstests() hands to contextutil.nested for
\* one run (role, properties).
xfstests_steps(role, properties) ==
    LET test_image == xfstests_test_image(properties)
        scratch_image == xfstests_scratch_image(properties)
        test_image_config ==
            Props(("image_name" :> test_image)
                  @@ ("image_size" :> get(properties, "test_size", 1000)))
        scratch_image_config ==
            Props(("image_name" :> scratch_image)
                  @@ ("image_size" :> get(properties, "scratch_size", 1000)))
        test_config ==
            Props(("test_dev" :> dev_path(test_image))
                  @@ ("scratch_dev" :> dev_path(scratch_image))
                  @@ ("fs_type" :> get(properties, "fs_type", "xfs")))
        one(v) == DictConfig(<<[role |-> role, val |-> v]>>)
    IN << Step("create_image", one(test_image_config)),
          Step("create_image", one(scratch_image_config)),
          Step("modprobe", one(PNone)),
          Step("dev_create", one(test_image)),
          Step("dev_create", one(scratch_image)),
          Step("run_xfstests", one(test_config)) >>

\* xfstests_check without the line that records the host as claimed.
RECURSIVE xfstests_check_unrecorded(_, _, _, _)
xfstests_check_unrecorded(cluster, runs, k, running_xfstests) ==
    IF k > Len(runs)
    THEN ""
    ELSE LET role == runs[k].role
             hosts == {h \in DOMAIN cluster : role \in cluster[h]}
         IN IF ~startswith_client(role)
            THEN "task xfstests can only run on client nodes"
            ELSE IF hosts \cap running_xfstests # {}
            THEN "task xfstests allows only one instance at a time per host"
            ELSE xfstests_check_unrecorded(cluster, runs, k + 1, running_xfstests)

\* xfstests_check without the assertion on the role's prefix.
RECURSIVE xfstests_check_any_role(_, _, _, _)
xfstests_check_any_role(cluster, runs, k, running_xfstests) ==
    IF k > Len(runs)
    THEN ""
    ELSE LET role == runs[k].role
             hosts == {h \in DOMAIN cluster : role \in cluster[h]}
         IN IF hosts \cap running_xfstests # {}
            THEN "task xfstests allows only one instance at a time per host"
            ELSE xfstests_check_any_role(cluster, runs, k + 1, running_xfstests \cup hosts)

\* rbd.py:502-510: the plan check of xfstests over runs[k..], with the hosts
\* already claimed; "" when every run passes, else the assertion's message.
RECURSIVE xfstests_check(_, _, _, _)
xfstests_check(cluster, runs, k, running_xfstests) ==
    IF k > Len(runs)
    THEN ""
    ELSE LET role == runs[k].role
             hosts == {h \in DOMAIN cluster : role \in cluster[h]}
         IN IF ~startswith_client(role)
            THEN "task xfstests can only run on client nodes"
            ELSE IF hosts \cap running_xfstests # {}
            THEN "task xfstests allows only one instance at a time per host"
            ELSE xfstests_check(cluster, runs, k + 1, running_xfstests \cup hosts)

\* ------------------------------------------------------------------ errors

Error(kind, i, role, cmd) == [kind |-> kind, i |-> i, role |-> role, cmd |-> cmd]

NoError == Error("none", 0, <<>>, "")

Running == Error("running", 0, <<>>, "")

OK == Error("ok", 0, <<>>, "")

\* A remote command returned nonzero: orchestra's run raises.
CommandFailed(i, role, cmd) == Error("CommandFailedError", i, role, cmd)

AssertionError(i, msg) == Error("AssertionError", i, <<>>, msg)

BodyError == Error("BodyError", 0, <<>>, "")

TeardownError == Error("TeardownError", 0, <<>>, "")

\* contextlib's "generator didn't stop"
GeneratorDidntStop == Error("RuntimeError", 0, <<>>, "generator didn't stop")

\* What nested raises once every exit has run: the first error of the forward
\* path or of the body if there is one, else the aggregate of the exits'
\* failures, else nothing.
Outcome(e, td) ==
    IF e # NoError THEN e
    ELSE IF td # {} THEN TeardownError
    ELSE OK

\* ------------------------------------------------------------------- state

VARIABLES
    workflow,   \* "task" or "xfstests": the context manager the caller entered
    cluster,    \* ctx.cluster.remotes
    config,     \* the configuration passed to the workflow
    runs,       \* xfstests: the (role, properties) pairs of the for loop
    steps,      \* the managers handed to the running contextutil.nested
    run,        \* xfstests: index of the run of the for loop
    pc,         \* "setup", "enter", "yield", "exit", "done"
    i,          \* the step whose enter or exit is running
    t,          \* index of the target within the step's loop
    c,          \* the command of the loop body that is next
    exits,      \* nested: the stack of entered steps
    exc,        \* nested: the pending error
    teardown,   \* nested: failures of exits, recorded beside the pending error
    enterLog,   \* steps whose enter was started, in order
    exitLog,    \* steps whose exit was started, in order
    exitDone,   \* steps whose exit ran to its end
    yields,     \* number of times control was handed to the caller's body
    result,     \* what the workflow's context manager reported to its caller
    images,     \* rbd images of the pool
    loaded,     \* roles on whose host the rbd module is loaded
    rules,      \* roles on whose host the udev rule file is installed
    mapped,     \* <<role, image>> mapped on the role's host
    symlink,    \* <<role, image>> whose /dev/rbd/rbd/<image> exists on the host
    dirs,       \* <<role, mnt>> mount point directories
    mounted,    \* <<role, mnt>> mounted mount points
    scripts,    \* roles on whose host the fetched script exists
    inflight,   \* remote commands started with wait=False and not yet finished
    issued,     \* every remote command issued so far
    lastCmd,    \* the remote command issued last
    failed      \* remote commands that returned failure (before any || true)

ctl == <<runs, steps, run, pc, i, t, c, exits, exc, teardown, enterLog, exitLog,
         exitDone, yields, result>>

input == <<workflow, cluster, config>>

resources == <<images, loaded, rules, mapped, symlink, dirs, mounted, scripts>>

cmds == <<inflight, issued, lastCmd, failed>>

vars == <<input, ctl, resources, cmds>>

\* ------------------------------------------------- positions in a manager

\* The first remote command of a manager's loop body before its yield.
EnterFirst(kind) ==
    CASE kind = "create_image" -> "create"
      [] kind = "modprobe" -> "modprobe"
      [] kind = "dev_create" -> "echo"
      [] kind = "mkfs" -> "mkfs"
      [] kind = "mount" -> "mkdir"
      [] kind = "run_xfstests" -> "readlink_test"

\* The first remote command of a manager's loop body after its yield; mkfs
\* has nothing after its yield.
ExitFirst(kind) ==
    CASE kind = "create_image" -> "rm"
      [] kind = "modprobe" -> "modprobe_r"
      [] kind = "dev_create" -> "unmap"
      [] kind = "mkfs" -> "return"
      [] kind = "mount" -> "umount"
      [] kind = "run_xfstests" -> "rm_script"

Goto(p, ii, tt, cc) == pc' = p /\ i' = ii /\ t' = tt /\ c' = cc

\* The loop body goes on to its next command.
NextCmd(cc) ==
    /\ Goto(pc, i, t, cc)
    /\ UNCHANGED <<runs, steps, run, exits, exc, teardown, enterLog, exitLog,
                   exitDone, yields, result>>

\* --------------------------------------------------- contextutil.nested

\* Every exit has run. In task() the with block ends and the outcome goes to
\* the caller; in xfstests() the with block sits in the for loop over the
\* runs (rbd.py:512, 543), which goes on to the next run unless nested raised.
Finish(e, td, ed) ==
    IF workflow = "xfstests" /\ Outcome(e, td) = OK /\ run < Len(runs)
    THEN LET next == xfstests_steps(runs[run + 1].role, runs[run + 1].val)
         IN /\ run' = run + 1
            /\ steps' = next
            /\ Goto("enter", 1, 1, EnterFirst(next[1].kind))
            /\ enterLog' = <<1>>
            /\ exitLog' = <<>>
            /\ exitDone' = {}
            /\ UNCHANGED <<runs, result>>
    ELSE /\ Goto("done", 0, 0, "")
         /\ result' = Outcome(e, td)
         /\ exitDone' = ed
         /\ UNCHANGED <<runs, steps, run, enterLog, exitLog>>

\* nested's unwinding: pop the exit entered last and run it, until none is
\* left; e is the pending error and td the exit failures recorded so far.
Unwind(stack, e, td, ed) ==
    /\ exc' = e
    /\ teardown' = td
    /\ IF stack = <<>>
       THEN exits' = <<>> /\ Finish(e, td, ed)
       ELSE /\ exits' = Front(stack)
            /\ exitLog' = Append(exitLog, Last(stack))
            /\ Goto("exit", Last(stack), 1, ExitFirst(steps[Last(stack)].kind))
            /\ exitDone' = ed
            /\ UNCHANGED <<runs, steps, run, enterLog, result>>

\* A manager's enter returned: nested keeps its exit and enters the next
\* manager, or hands control to the with block's body after the last.
Entered ==
    /\ exits' = Append(exits, i)
    /\ IF i < Len(steps)
       THEN /\ Goto("enter", i + 1, 1, EnterFirst(steps[i + 1].kind))
            /\ enterLog' = Append(enterLog, i + 1)
       ELSE /\ Goto("yield", 0, 0, "")
            /\ enterLog' = enterLog
    /\ UNCHANGED <<runs, steps, run, exc, teardown, exitLog, exitDone, yields, result>>

\* A manager's enter raised: its own exit is not kept; the error becomes the
\* pending one and the entered managers are unwound.
EnterRaise(err) ==
    /\ Unwind(exits, err, teardown, exitDone)
    /\ UNCHANGED yields

\* A manager's exit returned.
Exited ==
    /\ Unwind(exits, exc, teardown, exitDone \cup {i})
    /\ UNCHANGED yields

\* ExitRaise with the exit's failure taking the place of the pending error.
ExitRaise_masking(err) ==
    /\ Unwind(exits, err, teardown, exitDone)
    /\ UNCHANGED yields

\* A manager's exit raised: the failure is recorded beside the pending error,
\* which it does not replace, and the unwinding goes on.
ExitRaise(err) ==
    /\ Unwind(exits, exc, teardown \cup {err}, exitDone)
    /\ UNCHANGED yields

\* ------------------------------------------------------- loops of a manager

\* End of the body of the for loop before the yield, over n targets.
EnterNext(n) ==
    IF t < n
    THEN /\ Goto("enter", i, t + 1, EnterFirst(steps[i].kind))
         /\ UNCHANGED <<runs, steps, run, exits, exc, teardown, enterLog, exitLog,
                        exitDone, yields, result>>
    ELSE Entered

\* End of the body of the for loop of the finally block, over n targets.
ExitNext(n) ==
    IF t < n
    THEN /\ Goto("exit", i, t + 1, ExitFirst(steps[i].kind))
         /\ UNCHANGED <<runs, steps, run, exits, exc, teardown, enterLog, exitLog,
                        exitDone, yields, result>>
    ELSE Exited

\* ---------------------------------------------------------- remote commands

Cmd(name, role, arg) ==
    [step |-> i, kind |-> steps[i].kind, phase |-> pc, name |-> name,
     role |-> role, arg |-> arg, size |-> 0, fmt |-> 0, fs |-> ""]

NoCmd ==
    [step |-> 0, kind |-> "", phase |-> "", name |-> "", role |-> <<>>,
     arg |-> <<>>, size |-> 0, fmt |-> 0, fs |-> ""]

\* remote.run(args=...), wait=True: the call returns when the command has
\* ended; ok is whether the command itself succeeded.
Remote(cmd, ok) ==
    /\ lastCmd' = cmd
    /\ issued' = issued \cup {cmd}
    /\ failed' = IF ok THEN failed ELSE failed \cup {cmd}
    /\ inflight' = inflight

\* remote.run(args=..., wait=False): the call returns at once; the command's
\* end and its status are not awaited.
RemoteNoWait(cmd) ==
    /\ lastCmd' = cmd
    /\ issued' = issued \cup {cmd}
    /\ inflight' = inflight \cup {cmd}
    /\ failed' = failed

IsListOrDict(cfg) == cfg.type \in {"list", "dict"}

\* shell_status with the unload checked like every other command.
shell_status_unload_checked(name, ok) == ok

\* shell_status with '|| true' on the load as well.
shell_status_load_ignored(name, ok) ==
    IF name \in {"modprobe_r", "modprobe"} THEN TRUE ELSE ok

\* shell_status with '|| true' on the unmount as well.
shell_status_umount_ignored(name, ok) ==
    IF name \in {"modprobe_r", "umount"} THEN TRUE ELSE ok

\* shell_status with '|| true' on the unmap as well.
shell_status_unmap_ignored(name, ok) ==
    IF name \in {"modprobe_r", "unmap"} THEN TRUE ELSE ok

\* The exit status remote.run sees for a command line, given whether the
\* command itself succeeded: the command's own status, except for
\* 'modprobe -r rbd || true' (rbd.py:121-132), which is always 0. remote.run
\* raises when the status is not 0.
shell_status(name, ok) == IF name = "modprobe_r" THEN TRUE ELSE ok

\* ------------------------------------------------------------ create_image

\* rbd.py:37-68: one pass of the creation loop, or the failing assertion.
create_image_enter ==
    /\ pc = "enter" /\ steps[i].kind = "create_image"
    /\ IF ~IsListOrDict(steps[i].config)
       THEN /\ EnterRaise(AssertionError(i,
                    "task create_image only supports a list or dictionary for configuration"))
            /\ UNCHANGED <<resources, cmds>>
       ELSE LET imgs == images_of(steps[i].config)
                role == imgs[t].role
                properties == imgs[t].val
                name == get(properties, "image_name", default_image_name(role))
                size == get(properties, "image_size", 10240)
                fmt == get(properties, "image_format", 1)
                cmd == [Cmd("create", role, name) EXCEPT !.size = size, !.fmt = fmt]
            IN \E ok \in BOOLEAN :
                /\ Remote(cmd, ok)
                /\ images' = IF ok THEN images \cup {name} ELSE images
                /\ IF shell_status("create", ok)
                   THEN EnterNext(Len(imgs))
                   ELSE EnterRaise(CommandFailed(i, role, "create"))
                /\ UNCHANGED <<loaded, rules, mapped, symlink, dirs, mounted, scripts>>
    /\ UNCHANGED input

\* rbd.py:71-90: one pass of the deletion loop.
create_image_exit ==
    /\ pc = "exit" /\ steps[i].kind = "create_image"
    /\ LET imgs == images_of(steps[i].config)
           role == imgs[t].role
           properties == imgs[t].val
           name == get(properties, "image_name", default_image_name(role))
       IN \E ok \in BOOLEAN :
            /\ Remote(Cmd("rm", role, name), ok)
            /\ images' = IF ok THEN images \ {name} ELSE images
            /\ IF shell_status("rm", ok)
               THEN ExitNext(Len(imgs))
               ELSE ExitRaise(CommandFailed(i, role, "rm"))
    /\ UNCHANGED <<input, loaded, rules, mapped, symlink, dirs, mounted, scripts>>

\* ---------------------------------------------------------------- modprobe

\* rbd.py:104-113
modprobe_enter ==
    /\ pc = "enter" /\ steps[i].kind = "modprobe"
    /\ LET roles == roles_of(steps[i].config)
           role == roles[t]
       IN \E ok \in BOOLEAN :
            /\ Remote(Cmd("modprobe", role, <<"rbd">>), ok)
            /\ loaded' = IF ok THEN loaded \cup {role} ELSE loaded
            /\ IF shell_status("modprobe", ok)
               THEN EnterNext(Len(roles))
               ELSE EnterRaise(CommandFailed(i, role, "modprobe"))
    /\ UNCHANGED <<input, images, rules, mapped, symlink, dirs, mounted, scripts>>

\* rbd.py:116-133
modprobe_exit ==
    /\ pc = "exit" /\ steps[i].kind = "modprobe"
    /\ LET roles == roles_of(steps[i].config)
           role == roles[t]
       IN \E ok \in BOOLEAN :
            /\ Remote(Cmd("modprobe_r", role, <<"rbd">>), ok)
            /\ loaded' = IF ok THEN loaded \ {role} ELSE loaded
            /\ IF shell_status("modprobe_r", ok)
               THEN ExitNext(Len(roles))
               ELSE ExitRaise(CommandFailed(i, role, "modprobe_r"))
    /\ UNCHANGED <<input, images, rules, mapped, symlink, dirs, mounted, scripts>>

\* -------------------------------------------------------------- dev_create

\* rbd.py:158-160, 209-211
image_of(item) == IF item.val = None THEN default_image_name(item.role) ELSE item.val

\* test_e with the wait for udev left out: the path is taken to exist.
test_e_always(role, path) == TRUE

\* 'test -e <path>' on the role's host, for a path of /dev/rbd/rbd (rbd.py:200,
\* 227).
test_e(role, path) == \E d \in symlink : d[1] = role /\ dev_path(d[2]) = path

\* rbd.py:149-204: one remote command of the mapping loop, or one turn of the
\* shell loop that waits for the symlink ('rbd map <image> && while test ! -e
\* /dev/rbd/rbd/<image>; do sleep 1; done').
dev_create_enter ==
    /\ pc = "enter" /\ steps[i].kind = "dev_create"
    /\ IF ~IsListOrDict(steps[i].config)
       THEN /\ EnterRaise(AssertionError(i,
                    "task dev_create only supports a list or dictionary for configuration"))
            /\ UNCHANGED <<resources, cmds>>
       ELSE LET role_images == role_images_of(steps[i].config)
                role == role_images[t].role
                image == image_of(role_images[t])
            IN CASE c = "echo" ->
                      \E ok \in BOOLEAN :
                        /\ Remote(Cmd("echo", role, <<"tmp", "cephtest", "51-rbd.rules">>), ok)
                        /\ IF shell_status("echo", ok)
                           THEN NextCmd("mv")
                           ELSE EnterRaise(CommandFailed(i, role, "echo"))
                        /\ UNCHANGED resources
                 [] c = "mv" ->
                      \E ok \in BOOLEAN :
                        /\ Remote(Cmd("mv", role, <<"etc", "udev", "rules.d">>), ok)
                        /\ rules' = IF ok THEN rules \cup {role} ELSE rules
                        /\ IF shell_status("mv", ok)
                           THEN NextCmd("secret")
                           ELSE EnterRaise(CommandFailed(i, role, "mv"))
                        /\ UNCHANGED <<images, loaded, mapped, symlink, dirs, mounted, scripts>>
                 [] c = "secret" ->
                      \E ok \in BOOLEAN :
                        /\ Remote(Cmd("secret", role, <<"tmp", "cephtest", "data">> \o role), ok)
                        /\ IF shell_status("secret", ok)
                           THEN NextCmd("map")
                           ELSE EnterRaise(CommandFailed(i, role, "secret"))
                        /\ UNCHANGED resources
                 [] c = "map" ->
                      \E ok \in BOOLEAN :
                        /\ Remote(Cmd("map", role, image), ok)
                        /\ mapped' = IF ok THEN mapped \cup {<<role, image>>} ELSE mapped
                        /\ IF shell_status("map", ok)
                           THEN NextCmd("test")
                           ELSE EnterRaise(CommandFailed(i, role, "map"))
                        /\ UNCHANGED <<images, loaded, rules, symlink, dirs, mounted, scripts>>
                 [] c = "test" ->
                      /\ IF test_e(role, dev_path(image))
                         THEN EnterNext(Len(role_images))
                         ELSE NextCmd("sleep")
                      /\ UNCHANGED <<resources, cmds>>
                 [] c = "sleep" ->
                      /\ NextCmd("test")
                      /\ UNCHANGED <<resources, cmds>>
    /\ UNCHANGED input

\* rbd.py:207-242: one remote command of the unmapping loop, or one turn of
\* the shell loop that waits for the symlink to go ('rbd unmap <path> && while
\* test -e /dev/rbd/rbd/<image>; do sleep 1; done').
dev_create_exit ==
    /\ pc = "exit" /\ steps[i].kind = "dev_create"
    /\ LET role_images == role_images_of(steps[i].config)
           role == role_images[t].role
           image == image_of(role_images[t])
       IN CASE c = "unmap" ->
                 \E ok \in BOOLEAN :
                    /\ Remote(Cmd("unmap", role, dev_path(image)), ok)
                    /\ mapped' = IF ok THEN mapped \ {<<role, image>>} ELSE mapped
                    /\ IF shell_status("unmap", ok)
                       THEN NextCmd("test")
                       ELSE ExitRaise(CommandFailed(i, role, "unmap"))
                    /\ UNCHANGED <<images, loaded, rules, symlink, dirs, mounted, scripts>>
            [] c = "test" ->
                 /\ IF test_e(role, dev_path(image))
                    THEN NextCmd("sleep")
                    ELSE NextCmd("rm_rules")
                 /\ UNCHANGED <<resources, cmds>>
            [] c = "sleep" ->
                 /\ NextCmd("test")
                 /\ UNCHANGED <<resources, cmds>>
            [] c = "rm_rules" ->
                 /\ RemoteNoWait(Cmd("rm_rules", role, <<"etc", "udev", "rules.d", "51-rbd.rules">>))
                 /\ ExitNext(Len(role_images))
                 /\ UNCHANGED resources
    /\ UNCHANGED input

\* udev on a host: it creates the symlink of a mapped device and deletes the
\* symlink of an unmapped one, some time after the map or unmap.
udev ==
    /\ \E d \in (mapped \ symlink) \cup (symlink \ mapped) :
          symlink' = IF d \in mapped THEN symlink \cup {d} ELSE symlink \ {d}
    /\ UNCHANGED <<input, ctl, cmds, images, loaded, rules, mapped, dirs, mounted, scripts>>

\* The end of an 'rm -f /etc/udev/rules.d/51-rbd.rules' started with
\* wait=False (rbd.py:234-242): it removed the file or it failed; nothing
\* reads its status.
rm_rules_end ==
    /\ \E x \in inflight :
          /\ inflight' = inflight \ {x}
          /\ \E ok \in BOOLEAN : rules' = IF ok THEN rules \ {x.role} ELSE rules
    /\ UNCHANGED <<input, ctl, issued, lastCmd, failed, images, loaded, mapped, symlink,
                   dirs, mounted, scripts>>

\* -------------------------------------------------------------------- mkfs

\* rbd.py:260-280
mkfs_enter ==
    /\ pc = "enter" /\ steps[i].kind = "mkfs"
    /\ IF ~IsListOrDict(steps[i].config)
       THEN /\ EnterRaise(AssertionError(i,
                    "task mkfs must be configured with a list or dictionary"))
            /\ UNCHANGED cmds
       ELSE LET imgs == images_of(steps[i].config)
                role == imgs[t].role
                properties == imgs[t].val
                image == get(properties, "image_name", default_image_name(role))
                fs == get(properties, "fs_type", "ext3")
                cmd == [Cmd("mkfs", role, dev_path(image)) EXCEPT !.fs = fs]
            IN \E ok \in BOOLEAN :
                /\ Remote(cmd, ok)
                /\ IF shell_status("mkfs", ok)
                   THEN EnterNext(Len(imgs))
                   ELSE EnterRaise(CommandFailed(i, role, "mkfs"))
    /\ UNCHANGED <<input, resources>>

\* rbd.py:281: nothing follows the yield of mkfs.
mkfs_exit ==
    /\ pc = "exit" /\ steps[i].kind = "mkfs"
    /\ Exited
    /\ UNCHANGED <<input, resources, cmds>>

\* ------------------------------------------------------------------- mount

\* rbd.py:298-333
mount_enter ==
    /\ pc = "enter" /\ steps[i].kind = "mount"
    /\ IF ~IsListOrDict(steps[i].config)
       THEN /\ EnterRaise(AssertionError(i,
                    "task mount must be configured with a list or dictionary"))
            /\ UNCHANGED <<dirs, mounted, cmds>>
       ELSE LET role_images == role_images_of(steps[i].config)
                role == role_images[t].role
                image == image_of(role_images[t])
                mnt == mnt_template(strip_client_prefix(role))
            IN IF ~startswith_client(role)
               THEN /\ EnterRaise(AssertionError(i, "role.startswith(PREFIX)"))
                    /\ UNCHANGED <<dirs, mounted, cmds>>
               ELSE CASE c = "mkdir" ->
                          \E ok \in BOOLEAN :
                            /\ Remote(Cmd("mkdir", role, mnt), ok)
                            /\ dirs' = IF ok THEN dirs \cup {<<role, mnt>>} ELSE dirs
                            /\ IF shell_status("mkdir", ok)
                               THEN NextCmd("mount")
                               ELSE EnterRaise(CommandFailed(i, role, "mkdir"))
                            /\ mounted' = mounted
                      [] c = "mount" ->
                          \E ok \in BOOLEAN :
                            /\ Remote(Cmd("mount", role, dev_path(image)), ok)
                            /\ mounted' = IF ok THEN mounted \cup {<<role, mnt>>} ELSE mounted
                            /\ IF shell_status("mount", ok)
                               THEN EnterNext(Len(role_images))
                               ELSE EnterRaise(CommandFailed(i, role, "mount"))
                            /\ dirs' = dirs
    /\ UNCHANGED <<input, images, loaded, rules, mapped, symlink, scripts>>

\* rbd.py:337-359
mount_exit ==
    /\ pc = "exit" /\ steps[i].kind = "mount"
    /\ LET role_images == role_images_of(steps[i].config)
           role == role_images[t].role
           mnt == mnt_template(strip_client_prefix(role))
       IN CASE c = "umount" ->
                 \E ok \in BOOLEAN :
                    /\ Remote(Cmd("umount", role, mnt), ok)
                    /\ mounted' = IF ok THEN mounted \ {<<role, mnt>>} ELSE mounted
                    /\ IF shell_status("umount", ok)
                       THEN NextCmd("rmdir")
                       ELSE ExitRaise(CommandFailed(i, role, "umount"))
                    /\ dirs' = dirs
            [] c = "rmdir" ->
                 \E ok \in BOOLEAN :
                    /\ Remote(Cmd("rmdir", role, mnt), ok)
                    /\ dirs' = IF ok THEN dirs \ {<<role, mnt>>} ELSE dirs
                    /\ IF shell_status("rmdir", ok)
                       THEN ExitNext(Len(role_images))
                       ELSE ExitRaise(CommandFailed(i, role, "rmdir"))
                    /\ mounted' = mounted
    /\ UNCHANGED <<input, images, loaded, rules, mapped, symlink, scripts>>

\* ------------------------------------------------------------ run_xfstests

\* rbd.py:364-372: 'readlink -f <path>' on the role's host: the device node a
\* symlink of /dev/rbd/rbd points to, the path itself when there is none.
canonical_path(role, path) ==
    IF \E d \in symlink : d[1] = role /\ dev_path(d[2]) = path
    THEN <<"dev", "rbd#">> \o SubSeq(path, 4, Len(path))
    ELSE path

\* rbd.py:404-459: one remote command of the loop that fetches and runs the
\* test script.
run_xfstests_enter ==
    /\ pc = "enter" /\ steps[i].kind = "run_xfstests"
    /\ LET imgs == steps[i].config.items
           role == imgs[t].role
           properties == imgs[t].val
           test_dev == get(properties, "test_dev", None)
           scratch_dev == get(properties, "scratch_dev", None)
           test_path == <<"tmp", "cephtest", "run_xfstests.sh">>
       IN CASE c = "readlink_test" ->
                 IF test_dev = None
                 THEN /\ EnterRaise(AssertionError(i,
                            "task run_xfstests requires test_dev to be defined"))
                      /\ UNCHANGED <<cmds, scripts>>
                 ELSE \E ok \in BOOLEAN :
                        /\ Remote(Cmd("readlink", role, test_dev), ok)
                        /\ IF shell_status("readlink", ok)
                           THEN NextCmd("readlink_scratch")
                           ELSE EnterRaise(CommandFailed(i, role, "readlink_test"))
                        /\ scripts' = scripts
            [] c = "readlink_scratch" ->
                 IF scratch_dev = None
                 THEN /\ EnterRaise(AssertionError(i,
                            "task run_xfstests requires scratch_dev to be defined"))
                      /\ UNCHANGED <<cmds, scripts>>
                 ELSE \E ok \in BOOLEAN :
                        /\ Remote(Cmd("readlink", role, scratch_dev), ok)
                        /\ IF shell_status("readlink", ok)
                           THEN NextCmd("wget")
                           ELSE EnterRaise(CommandFailed(i, role, "readlink_scratch"))
                        /\ scripts' = scripts
            [] c = "wget" ->
                 \E ok \in BOOLEAN :
                    /\ Remote(Cmd("wget", role, test_path), ok)
                    /\ scripts' = IF ok THEN scripts \cup {role} ELSE scripts
                    /\ IF shell_status("wget", ok)
                       THEN NextCmd("run")
                       ELSE EnterRaise(CommandFailed(i, role, "wget"))
            [] c = "run" ->
                 \E ok \in BOOLEAN :
                    /\ Remote([Cmd("run", role, canonical_path(role, test_dev))
                                  EXCEPT !.fs = get(properties, "fs_type", "")], ok)
                    /\ IF shell_status("run", ok)
                       THEN EnterNext(Len(imgs))
                       ELSE EnterRaise(CommandFailed(i, role, "run"))
                    /\ scripts' = scripts
    /\ UNCHANGED <<input, images, loaded, rules, mapped, symlink, dirs, mounted>>

\* rbd.py:462-468
run_xfstests_exit ==
    /\ pc = "exit" /\ steps[i].kind = "run_xfstests"
    /\ LET imgs == steps[i].config.items
           role == imgs[t].role
       IN \E ok \in BOOLEAN :
            /\ Remote(Cmd("rm_script", role, <<"tmp", "cephtest", "run_xfstests.sh">>), ok)
            /\ scripts' = IF ok THEN scripts \ {role} ELSE scripts
            /\ IF shell_status("rm_script", ok)
               THEN ExitNext(Len(imgs))
               ELSE ExitRaise(CommandFailed(i, role, "rm_script"))
    /\ UNCHANGED <<input, images, loaded, rules, mapped, symlink, dirs, mounted>>

\* --------------------------------------------------------------- workflows

\* rbd.py:553, 618: the yield inside the with block hands control to the
\* caller's body, which returns or raises; contextlib refuses a generator
\* that yields a second time.
body ==
    /\ pc = "yield"
    /\ yields' = yields + 1
    /\ IF yields = 0
       THEN \E ok \in BOOLEAN :
                Unwind(exits, IF ok THEN NoError ELSE BodyError, teardown, exitDone)
       ELSE /\ Goto("done", 0, 0, "")
            /\ result' = GeneratorDidntStop
            /\ UNCHANGED <<runs, steps, run, exits, exc, teardown, enterLog, exitLog,
                           exitDone>>
    /\ UNCHANGED <<input, resources, cmds>>

\* rbd.py:595-617: task() up to the call of contextutil.nested.
task_setup ==
    /\ pc = "setup" /\ workflow = "task"
    /\ LET norm_config == task_norm_config(cluster, config)
           role_images == task_role_images(norm_config)
           managers == task_steps(norm_config, role_images)
       IN /\ steps' = managers
          /\ Goto("enter", 1, 1, EnterFirst(managers[1].kind))
    /\ enterLog' = <<1>>
    /\ UNCHANGED <<input, resources, cmds, runs, run, exits, exc, teardown, exitLog,
                   exitDone, yields, result>>

\* rbd.py:492-500
xfstests_runs(cl, cfg) ==
    LET c0 == IF cfg.type = "none"
              THEN DictConfig(<<[role |-> AllRole, val |-> PNone]>>)
              ELSE cfg
    IN IF c0.type = "dict"
       THEN replace_all_with_clients(cl, c0).items
       ELSE images_of(c0)

\* rbd.py:492-543: xfstests() up to the first call of contextutil.nested.
xfstests_setup ==
    /\ pc = "setup" /\ workflow = "xfstests"
    /\ LET rs == xfstests_runs(cluster, config)
           msg == IF config.type = "other"
                  THEN "task xfstests only supports a list or dictionary for configuration"
                  ELSE xfstests_check(cluster, rs, 1, {})
           managers == xfstests_steps(rs[1].role, rs[1].val)
       IN IF msg # ""
          THEN /\ Goto("done", 0, 0, "")
               /\ result' = AssertionError(0, msg)
               /\ UNCHANGED <<runs, steps, run, enterLog>>
          ELSE /\ runs' = rs
               /\ run' = 1
               /\ steps' = managers
               /\ Goto("enter", 1, 1, EnterFirst(managers[1].kind))
               /\ enterLog' = <<1>>
               /\ result' = result
    /\ UNCHANGED <<input, resources, cmds, exits, exc, teardown, exitLog, exitDone, yields>>

\* ------------------------------------------------------------ specification

\* The orders in which a configuration names its targets: client.0 .. client.n
\* for every n, and all the clients from the last to the first.
Ascending(n) == [k \in 1 .. n |-> ClientRole(k - 1)]

Descending(n) == [k \in 1 .. n |-> ClientRole(n - k)]

TaskOrders == {Ascending(n) : n \in 1 .. NumClients} \cup {Descending(NumClients)}

Dict(o, k) == DictConfig([n \in DOMAIN o |-> [role |-> o[n], val |-> TaskProps(k, o[n])]])

TaskConfigs ==
    {ConfigNone, ConfigOther}
    \cup {ListConfig(o) : o \in TaskOrders}

TaskDictConfigs ==
    {Dict(o, "mixed") : o \in TaskOrders}
    \cup {Dict(Ascending(NumClients), k) : k \in PropKinds}
    \cup {Dict(<<AllRole>>, k) : k \in PropKinds}

XfsConfigs ==
    {ConfigNone, ConfigOther}
    \cup {ListConfig(o) : o \in Orders(Clients \cup {OsdRole})}

XfsDictConfigs ==
    {DictConfig([n \in DOMAIN o |-> [role |-> o[n], val |-> XfsProps("named", o[n])]]) :
        o \in Orders(Clients \cup {OsdRole}) \cup {<<AllRole>>}}

\* The state before the workflow's context manager is entered.
Start ==
    /\ runs = <<>>
    /\ steps = <<>>
    /\ run = 0
    /\ pc = "setup"
    /\ i = 0
    /\ t = 0
    /\ c = ""
    /\ exits = <<>>
    /\ exc = NoError
    /\ teardown = {}
    /\ enterLog = <<>>
    /\ exitLog = <<>>
    /\ exitDone = {}
    /\ yields = 0
    /\ result = Running
    /\ images = {}
    /\ loaded = {}
    /\ rules = {}
    /\ mapped = {}
    /\ symlink = {}
    /\ dirs = {}
    /\ mounted = {}
    /\ scripts = {}
    /\ inflight = {}
    /\ issued = {}
    /\ lastCmd = NoCmd
    /\ failed = {}

\* with rbd.task(ctx, config): body
Init ==
    /\ workflow = "task"
    /\ cluster = Cluster(1)
    /\ \/ config \in TaskConfigs
       \/ config \in TaskDictConfigs
    /\ Start

\* with rbd.xfstests(ctx, config): body
XInit ==
    /\ workflow = "xfstests"
    /\ \E share \in 1 .. NumClients : cluster = Cluster(share)
    /\ \/ config \in XfsConfigs
       \/ config \in XfsDictConfigs
    /\ Start

\* The steps of the program: one thread, one remote command at a time.
Program ==
    \/ task_setup
    \/ create_image_enter
    \/ modprobe_enter
    \/ dev_create_enter
    \/ mkfs_enter
    \/ mount_enter
    \/ body
    \/ mount_exit
    \/ mkfs_exit
    \/ dev_create_exit
    \/ modprobe_exit
    \/ create_image_exit

XProgram ==
    \/ xfstests_setup
    \/ create_image_enter
    \/ modprobe_enter
    \/ dev_create_enter
    \/ run_xfstests_enter
    \/ body
    \/ run_xfstests_exit
    \/ dev_create_exit
    \/ modprobe_exit
    \/ create_image_exit

\* The steps of the hosts.
Hosts ==
    \/ udev
    \/ rm_rules_end

Next == Program \/ Hosts

Spec == Init /\ [][Next]_vars

XNext == XProgram \/ Hosts

XSpec == XInit /\ [][XNext]_vars

\* The interpreter keeps running the program; nothing is promised of udev.
FairSpec == Spec /\ WF_vars(Program)

\* ------------------------------------------------------------------ claims

Reverse(s) == [n \in DOMAIN s |-> s[Len(s) + 1 - n]]

Kinds(log) == [n \in DOMAIN log |-> steps[log[n]].kind]

UpTo(n) == [k \in 1 .. n |-> k]

\* Remote commands of a loop before a yield that failed.
EnterFailures == {f \in failed : f.phase = "enter"}

\* Remote commands of a finally block that failed, the unload apart.
ExitFailures == {f \in failed : f.phase = "exit" /\ f.name # "modprobe_r"}

ExitIssued(name) == \E x \in issued : x.phase = "exit" /\ x.name = name

\* C1: in task(), when every enter succeeded (control reached the body), then
\* whether the body returned or raised, at the end of the run the exit of every
\* step has been started exactly once, in the reverse of the enter order:
\* mount, mkfs, dev_create, modprobe, create_image; and the unmount, unmap,
\* unload and image delete commands were issued.
C1_ExitsReverseOfEnters ==
    /\ \A a, b \in DOMAIN exitLog : a # b => exitLog[a] # exitLog[b]
    /\ (pc = "done" /\ yields = 1) =>
          /\ enterLog = UpTo(5)
          /\ exitLog = Reverse(enterLog)
          /\ Kinds(exitLog) = <<"mount", "mkfs", "dev_create", "modprobe", "create_image">>
          /\ \A n \in {"umount", "unmap", "modprobe_r", "rm"} : ExitIssued(n)

\* The body raised, and the run ended with every exit started.
C1_Witness ==
    /\ pc = "done" /\ yields = 1 /\ result = BodyError
    /\ Len(exitLog) = 5 /\ Len(config.items) = NumClients

\* C2: when a remote command of step k's enter fails (or step k's enter fails
\* an assertion), no enter after k is started, the body does not run, the
\* exits started are those of steps k-1 .. 1 in that order, and the error
\* given to the caller is the one of step k's enter.
C2_EnterFailureUnwinds ==
    /\ \A f \in EnterFailures :
          /\ pc \in {"exit", "done"}
          /\ yields = 0
          /\ enterLog = UpTo(f.step)
          /\ exc = CommandFailed(f.step, f.role, f.name)
          /\ Len(exitLog) <= f.step - 1
          /\ exitLog = SubSeq(Reverse(UpTo(f.step - 1)), 1, Len(exitLog))
          /\ pc = "done" =>
                /\ exitLog = Reverse(UpTo(f.step - 1))
                /\ result = CommandFailed(f.step, f.role, f.name)
    /\ (pc = "done" /\ result.kind = "AssertionError") =>
          /\ yields = 0
          /\ enterLog = UpTo(result.i)
          /\ exitLog = Reverse(UpTo(result.i - 1))

\* The mkfs of the second target failed and the three steps before were unwound.
C2_Witness ==
    /\ pc = "done"
    /\ \E f \in EnterFailures : f.name = "mkfs" /\ f.role = ClientRole(1)
    /\ exitLog = <<3, 2, 1>>

\* C3: after a run of task() in which a remote command of an enter failed and
\* every command of the finally blocks succeeded, no device is mapped and no
\* mount point is mounted.
C3_NoOrphans ==
    (pc = "done" /\ EnterFailures # {} /\ {f \in failed : f.phase = "exit"} = {})
        => (mapped = {} /\ mounted = {})

\* C4: when an enter failed and an exit failed during the unwinding, the error
\* given to the caller is the enter's, and the exit's failure is recorded.
C4_FirstErrorWins ==
    (pc = "done" /\ EnterFailures # {} /\ ExitFailures # {}) =>
        /\ \A f \in EnterFailures : result = CommandFailed(f.step, f.role, f.name)
        /\ \A g \in ExitFailures : CommandFailed(g.step, g.role, g.name) \in teardown

C4_Witness ==
    /\ pc = "done"
    /\ \E f \in EnterFailures : f.name = "mount"
    /\ \E g \in ExitFailures : g.name = "unmap"

\* C5: when every enter and the body succeeded and a command of a step's exit
\* failed, the exits of all the steps entered before that step were started
\* all the same (and their first command issued), and the run reports a
\* failure.
C5_ExitFailureReported ==
    (pc = "done" /\ yields = 1 /\ exc = NoError /\ ExitFailures # {}) =>
        /\ result = TeardownError
        /\ \A g \in ExitFailures : \A j \in 1 .. g.step - 1 :
              /\ \E n \in DOMAIN exitLog : exitLog[n] = j
              /\ ExitFirst(steps[j].kind) # "return" =>
                    \E x \in issued : x.phase = "exit" /\ x.step = j

\* The unmount failed after a body that returned; the image delete still ran.
C5_Witness ==
    /\ pc = "done" /\ yields = 1 /\ exc = NoError
    /\ \E g \in ExitFailures : g.name = "umount"
    /\ ExitIssued("rm")

CreateIssued(j, role) ==
    \E x \in issued : x.step = j /\ x.name = "create" /\ x.role = role

\* C6: when the creation of one target's image failed, the creation
\* was attempted for every target of the step, and the enter failed.
C6_AllTargetsAttempted ==
    \A f \in failed :
        (pc = "done" /\ f.name = "create") =>
            /\ \A n \in DOMAIN roles_of(steps[f.step].config) :
                  CreateIssued(f.step, roles_of(steps[f.step].config)[n])
            /\ result.kind # "ok"

\* C7: a failure of 'modprobe -r' is never surfaced: no error names it, the
\* exit of the module step runs to its end over every target, the image
\* delete is still issued, and the outcome is the one the other failures
\* (or their absence) give.
C7_UnloadFailureSuppressed ==
    \A f \in failed :
        f.name = "modprobe_r" =>
            /\ exc.cmd # "modprobe_r" /\ result.cmd # "modprobe_r"
            /\ \A e \in teardown : e.cmd # "modprobe_r"
            /\ pc = "done" =>
                  /\ f.step \in exitDone
                  /\ \A n \in DOMAIN roles_of(steps[f.step].config) :
                        \E x \in issued : /\ x.name = "modprobe_r"
                                          /\ x.role = roles_of(steps[f.step].config)[n]
                  /\ ExitIssued("rm")
                  /\ result = IF exc # NoError THEN exc
                              ELSE IF ExitFailures # {} THEN TeardownError
                              ELSE OK

\* The unload failed on every target and the run ended without an error.
C7_Witness ==
    /\ pc = "done" /\ result = OK
    /\ Len(config.items) = NumClients
    /\ \A r \in Clients : \E f \in failed : f.name = "modprobe_r" /\ f.role = r

\* The shell loop after 'rbd unmap' is running.
UnmapWaiting == pc = "exit" /\ steps[i].kind = "dev_create" /\ c \in {"test", "sleep"}

\* C8: the wait for the symlink to disappear after the unmap always ends (by
\* the symlink's going or by a timeout error): the run does not stay in it
\* forever.
C8_UnmapWaitEnds == UnmapWaiting ~> ~UnmapWaiting

\* ------------------------------------------------------- claims on xfstests

ConflictMessage == "task xfstests allows only one instance at a time per host"

ClientMessage == "task xfstests can only run on client nodes"

\* The targets of the xfstests configuration, in its order ('all' standing
\* for every client, None for 'all').
XfsTargets ==
    IF config.type = "list" THEN config.items
    ELSE IF config.type = "none" \/ (config.type = "dict" /\ config.items[1].role = AllRole)
    THEN Ascending(NumClients)
    ELSE [n \in DOMAIN config.items |-> config.items[n].role]

HostOf(role) == CHOOSE h \in DOMAIN cluster : role \in cluster[h]

\* Targets a < b of the configuration on one host.
SameHostPairs ==
    {p \in (DOMAIN XfsTargets) \X (DOMAIN XfsTargets) :
        p[1] < p[2] /\ HostOf(XfsTargets[p[1]]) = HostOf(XfsTargets[p[2]])}

\* The first target that shares its host with a target before it.
FirstClash == CHOOSE b \in {p[2] : p \in SameHostPairs} :
                    \A p \in SameHostPairs : b <= p[2]

NonClientUpTo(b) == \E n \in 1 .. b : XfsTargets[n][1] # "client"

\* C9 as stated: a configuration with two targets on one host is rejected with
\* the one-instance-per-host error before any remote command is issued.
C9_ConflictRejected ==
    (config.type # "other" /\ SameHostPairs # {} /\ pc # "setup") =>
        /\ pc = "done" /\ issued = {}
        /\ result = AssertionError(0, ConflictMessage)

\* C9 as amended: such a configuration is rejected by an assertion before any
\* remote command is issued, for every order of the targets; the error is the
\* one-instance-per-host one unless a target that is no client comes before
\* the clash in the order, and then it is the client-nodes one.
C9_ConflictRejectedEarly ==
    (config.type # "other" /\ SameHostPairs # {} /\ pc # "setup") =>
        /\ pc = "done" /\ issued = {} /\ lastCmd = NoCmd /\ yields = 0
        /\ result = AssertionError(0, IF NonClientUpTo(FirstClash)
                                      THEN ClientMessage
                                      ELSE ConflictMessage)

\* client.1 named before client.0, both on one host: rejected as a conflict.
C9_Witness ==
    /\ pc = "done" /\ issued = {}
    /\ config.type = "list" /\ config.items = <<ClientRole(1), ClientRole(0)>>
    /\ result = AssertionError(0, ConflictMessage)

\* ------------------------------------------------------ image names (C10)

\* The image name the configuration of task() gives a role, None if none.
ConfiguredName(role) ==
    IF config.type # "dict" THEN None
    ELSE LET named == {n \in DOMAIN config.items :
                            /\ config.items[n].role \in {role, AllRole}
                            /\ ~config.items[n].val.none
                            /\ "image_name" \in DOMAIN config.items[n].val.d}
         IN IF named = {} THEN None
            ELSE config.items[CHOOSE n \in named : TRUE].val.d["image_name"]

\* The image a command names, by its name or by its device path.
ImageIn(x) ==
    IF x.name \in {"create", "map", "rm"} THEN x.arg ELSE SubSeq(x.arg, 4, Len(x.arg))

\* C10: every command of the mapping, filesystem and mount steps names, for
\* its target, the image the image step created for that target; that name is
\* the configured one, and testimage.<target> when none is configured.
C10_SameImageName ==
    \A x \in issued :
        x.name \in {"create", "map", "unmap", "mkfs", "mount", "rm"} =>
            /\ \E y \in issued :
                    y.name = "create" /\ y.role = x.role /\ y.arg = ImageIn(x)
            /\ ImageIn(x) = IF ConfiguredName(x.role) = None
                            THEN <<"testimage">> \o x.role
                            ELSE ConfiguredName(x.role)

\* A run mounted one target with the default name and one with its own.
C10_Witness ==
    /\ \E x \in issued : /\ x.name = "mount" /\ ConfiguredName(x.role) = None
                         /\ x.arg = <<"dev", "rbd", "rbd", "testimage">> \o x.role
    /\ \E x \in issued : /\ x.name = "mount" /\ ConfiguredName(x.role) # None
                         /\ x.arg = <<"dev", "rbd", "rbd">> \o ConfiguredName(x.role)

\* C11: no two remote commands are in flight at once: a command that has not
\* ended is the one issued last, so nothing was issued while it was running.
C11_OneCommandAtATime == inflight = {} \/ inflight = {lastCmd}

\* ------------------------------------------- xfstests: roles that are no clients

NonClients == {n \in DOMAIN XfsTargets : XfsTargets[n][1] # "client"}

\* The first target of the configuration that is no client.
FirstNonClient == CHOOSE a \in NonClients : \A n \in NonClients : a <= n

\* A target shares its host with an earlier one, both before target a.
ClashBefore(a) == \E p \in SameHostPairs : p[2] < a

\* C12 as stated: a configuration with a target that is no 'client.' role is
\* rejected with the client-nodes error before any remote command is issued.
C12_NonClientRejected ==
    (config.type # "other" /\ NonClients # {} /\ pc # "setup") =>
        /\ pc = "done" /\ issued = {}
        /\ result = AssertionError(0, ClientMessage)

\* C12 as amended: such a configuration is rejected by an assertion before any
\* remote command is issued for any target; the error is the client-nodes one
\* unless two targets on one host come before the first target that is no
\* client, and then it is the one-instance-per-host one.
C12_NonClientRejectedEarly ==
    (config.type # "other" /\ NonClients # {} /\ pc # "setup") =>
        /\ pc = "done" /\ issued = {} /\ lastCmd = NoCmd /\ yields = 0
        /\ images = {} /\ mapped = {}
        /\ result = AssertionError(0, IF ClashBefore(FirstNonClient)
                                      THEN ConflictMessage
                                      ELSE ClientMessage)

\* client.0, then the osd, clients on hosts of their own: rejected for the osd
\* although client.0 alone would have passed.
C12_Witness ==
    /\ pc = "done" /\ issued = {}
    /\ config.type = "list" /\ config.items = <<ClientRole(0), OsdRole>>
    /\ SameHostPairs = {}
    /\ result = AssertionError(0, ClientMessage)

\* ------------------------------------------------- configurations of task()

NothingProvisioned ==
    /\ images = {} /\ loaded = {} /\ rules = {} /\ mapped = {} /\ symlink = {}
    /\ dirs = {} /\ mounted = {} /\ scripts = {}

ClusterClients == {r \in UNION {cluster[h] : h \in DOMAIN cluster} : r[1] = "client"}

\* The property map the configuration gives under 'all' (None for a
\* configuration that is None), when it has that alias.
UnderAll ==
    IF config.type = "none" THEN PNone
    ELSE config.items[CHOOSE n \in DOMAIN config.items : config.items[n].role = AllRole].val

UsesAll ==
    \/ config.type = "none"
    \/ config.type = "dict" /\ \E n \in DOMAIN config.items : config.items[n].role = AllRole

\* C14: a configuration with the alias 'all' is normalized to one entry for
\* every client role of the cluster, each with the properties given under
\* 'all'; every image is then created with the overrides given there and the
\* defaults for the other fields.
C14_AllExpands ==
    (UsesAll /\ pc # "setup") =>
        LET norm == steps[1].config
        IN /\ norm.type = "dict"
           /\ Len(norm.items) = Cardinality(ClusterClients)
           /\ {norm.items[n].role : n \in DOMAIN norm.items} = ClusterClients
           /\ \A n \in DOMAIN norm.items : norm.items[n].val = UnderAll
           /\ \A x \in issued :
                x.name = "create" =>
                    /\ x.role \in ClusterClients
                    /\ x.size = IF ~UnderAll.none /\ "image_size" \in DOMAIN UnderAll.d
                                THEN UnderAll.d["image_size"] ELSE 10240
                    /\ x.fmt = IF ~UnderAll.none /\ "image_format" \in DOMAIN UnderAll.d
                               THEN UnderAll.d["image_format"] ELSE 1
                    /\ x.arg = IF ~UnderAll.none /\ "image_name" \in DOMAIN UnderAll.d
                               THEN UnderAll.d["image_name"] ELSE <<"testimage">> \o x.role

\* {all: {image_size: 20480, ...}} on clients client.0 and client.1: both
\* images were created with size 20480, format 1 and the default name.
C14_Witness ==
    /\ config.type = "dict" /\ config.items[1].role = AllRole
    /\ \A r \in {ClientRole(0), ClientRole(1)} :
          \E x \in issued : /\ x.name = "create" /\ x.role = r /\ x.size = 20480
                            /\ x.fmt = 1 /\ x.arg = <<"testimage">> \o r

\* The property map the configuration of task() gives a role: that of its own
\* entry or of 'all' in a dict, None in a list or a configuration that is None.
RawProps(role) ==
    IF config.type # "dict" THEN PNone
    ELSE config.items[CHOOSE n \in DOMAIN config.items :
                            config.items[n].role \in {role, AllRole}].val

Supplies(role, key) == ~RawProps(role).none /\ key \in DOMAIN RawProps(role).d

\* C15: each of image name, image size and image format of a target's image
\* is the value the target's properties supply for that field, and the
\* field's default (testimage.<target>, 10240, 1) when they supply none,
\* whatever they supply for the other fields; a list or a null property map
\* gives every field its default.
C15_DefaultsPerField ==
    \A x \in issued :
        x.name = "create" =>
            /\ x.arg = IF Supplies(x.role, "image_name")
                       THEN RawProps(x.role).d["image_name"]
                       ELSE <<"testimage">> \o x.role
            /\ x.size = IF Supplies(x.role, "image_size")
                        THEN RawProps(x.role).d["image_size"]
                        ELSE 10240
            /\ x.fmt = IF Supplies(x.role, "image_format")
                       THEN RawProps(x.role).d["image_format"]
                       ELSE 1

\* One image was created with only its size overridden, another with only
\* its name and format overridden.
C15_Witness ==
    /\ \E x \in issued : /\ x.name = "create" /\ x.size = 20480 /\ x.fmt = 1
                         /\ x.arg = <<"testimage">> \o x.role
                         /\ Supplies(x.role, "image_size")
                         /\ ~Supplies(x.role, "image_name")
    /\ \E x \in issued : /\ x.name = "create" /\ x.size = 10240 /\ x.fmt = 2
                         /\ x.arg = <<"foo">> \o Tail(x.role)
                         /\ ~Supplies(x.role, "image_size")

\* C16: normalizing is idempotent: task()'s normalization applied to the
\* normalized configuration it handed to its steps returns that configuration
\* unchanged, for every list, dict or None configuration.
C16_NormalizeIdempotent ==
    (config.type # "other" /\ pc # "setup") =>
        /\ task_norm_config(cluster, steps[1].config) = steps[1].config
        /\ steps[1].config = task_norm_config(cluster, config)

\* A configuration that normalization changed: 'all' with properties, expanded
\* to several clients.
C16_Witness ==
    /\ pc = "done" /\ config.type = "dict" /\ config.items[1].role = AllRole
    /\ steps[1].config # config
    /\ Len(steps[1].config.items) = NumClients
    /\ ~steps[1].config.items[1].val.none

\* ------------------------------------------------------ the mapping step

\* The steps whose enter has completed and whose exit has not started.
EnteredSteps == {exits[n] : n \in DOMAIN exits}

\* C17: in dev_create's enter the udev rule of a target is written and
\* installed before its map command is issued; the enter is not complete
\* while the symlink of any of its targets' images is missing; and a mkfs or
\* mount command is never issued for a device whose symlink is absent.
C17_SymlinkBeforeUse ==
    /\ \A x \in issued :
          x.name = "map" =>
              \A n \in {"echo", "mv"} :
                  \E y \in issued : y.name = n /\ y.step = x.step /\ y.role = x.role
    /\ \A j \in EnteredSteps :
          steps[j].kind = "dev_create" =>
              \A n \in DOMAIN role_images_of(steps[j].config) :
                  LET item == role_images_of(steps[j].config)[n]
                  IN <<item.role, image_of(item)>> \in symlink
    /\ lastCmd.name \in {"mkfs", "mount"} =>
          \E d \in symlink : d[1] = lastCmd.role /\ dev_path(d[2]) = lastCmd.arg

\* The filesystem of the second target was made: both symlinks are there.
C17_Witness ==
    /\ lastCmd.name = "mkfs" /\ lastCmd.role = ClientRole(1) /\ lastCmd \notin failed
    /\ \A r \in {ClientRole(0), ClientRole(1)} : <<r, <<"testimage">> \o r>> \in symlink
    /\ \E x \in issued : x.name = "mkfs" /\ x.role = ClientRole(0)

\* C18: in dev_create's exit the rule file of a target is removed only after
\* the target's unmap command succeeded and its symlink is gone; the removal
\* is never the cause of an error and the exit runs to its end whatever
\* becomes of it; a failing unmap command does fail the exit.
C18_UnmapWaitRemove ==
    /\ lastCmd.name = "rm_rules" =>
          \E u \in issued :
              /\ u.name = "unmap" /\ u.step = lastCmd.step /\ u.role = lastCmd.role
              /\ u \notin failed
              /\ ~\E d \in symlink : d[1] = u.role /\ dev_path(d[2]) = u.arg
    /\ \A e \in teardown \cup {exc, result} : e.cmd # "rm_rules"
    /\ \A x \in issued :
          (x.name = "rm_rules" /\ pc = "done"
              /\ x.role = Last(roles_of(steps[x.step].config)))
            => x.step \in exitDone
    /\ \A f \in failed :
          f.name = "unmap" =>
              /\ CommandFailed(f.step, f.role, "unmap") \in teardown
              /\ f.step \notin exitDone
              /\ pc = "done" => result \notin {OK, Running}

\* The removal of a rule file failed (the file is still there with no command
\* in flight), and the run ended well with dev_create's exit complete.
C18_Witness ==
    /\ pc = "done" /\ result = OK /\ inflight = {} /\ rules # {}
    /\ \E j \in exitDone : steps[j].kind = "dev_create"
    /\ \E x \in issued : x.name = "rm_rules"

\* --------------------------------------------------- order of the teardown

\* C19: the image of a target is never deleted while the target's device is
\* still mapped, and a target's device is never unmapped while its mount
\* point is still mounted: when such a command has just been issued, the
\* resource above it is gone.
C19_TeardownOrder ==
    /\ lastCmd.name = "rm" => <<lastCmd.role, lastCmd.arg>> \notin mapped
    /\ lastCmd.name = "unmap" =>
          <<lastCmd.role, mnt_template(strip_client_prefix(lastCmd.role))>> \notin mounted

\* ------------------------------------------------------- xfstests and its body

\* The runs whose workload has been run.
WorkloadRun == {x.role : x \in {y \in issued : y.name = "run"}}

\* C20: xfstests() provisions every target and runs its workload before it
\* hands control to the caller's body, hands control over once only, and
\* issues no command of an enter once the body has run.
C20_AllRunsBeforeBody ==
    /\ yields <= 1
    /\ (pc = "yield" \/ yields > 0) =>
          \A n \in DOMAIN runs : runs[n].role \in WorkloadRun
    /\ lastCmd.phase = "enter" => yields = 0
====
